---- MODULE Spec2Model ----
(***************************************************************************)
(* The credit-aware query/cache layer of SafeShip's backend:                *)
(*   - MyShipTrackingClient (services/mstClient.ts): request, the TTL      *)
(*     cache, getVesselStatus, getVesselsInZone;                           *)
(*   - the bounding-box normalizer and the area planner (legacy/area.ts);  *)
(*   - the gateway routes /legacy/getVesselsInArea, getVesselsNearMe and   *)
(*     getVesselsInPort (classes/server.ts);                               *)
(*   - port mode: resolvePortIdentifier, getVesselsInPort (legacy/api.ts). *)
(*                                                                         *)
(* Time is Date.now() in abstract milliseconds.  A JavaScript data value   *)
(* is either null/undefined (falsy) or an array of vessels (truthy, also   *)
(* when empty).  Coordinates are integers in arc minutes (1/60 degree).    *)
(***************************************************************************)
EXTENDS Integers, Sequences, FiniteSets, TLC

VARIABLES
    cache,          \* MyShipTrackingClient.cache: key -> CacheEntry
    now,            \* Date.now()
    apiKey,         \* process.env.MST_API_KEY is set
    req,            \* the calls of the client made by the gateway, by slot
    upstreamCalls,  \* number of fetch() calls issued so far
    cfg,            \* the limits read from the environment by area.ts
    plan,           \* the gateway's area / near-me request being served
    zoneQueries,    \* the ZoneQuery of every getVesselsInZone call, in order
    inflight        \* the boxes (by index) whose fetch is in flight

vars ==
    <<cache, now, apiKey, req, upstreamCalls, cfg, plan, zoneQueries, inflight>>

plannerVars == <<cfg, plan, zoneQueries, inflight>>

----------------------------------------------------------------------------
(* Bounds of the model *)

MaxReq == 3     \* client calls per behaviour
MaxTime == 2    \* last instant of Date.now()
MaxTtl == 1     \* largest ttl handed to request

----------------------------------------------------------------------------
(* JavaScript values *)

Undefined == "<undefined>"

Null == [null |-> TRUE, list |-> <<>>]

Data(list) == [null |-> FALSE, list |-> list]

\* if (value): null and undefined are falsy, every array is truthy
Truthy(value) == ~value.null

\* if (value) for a string or an absent parameter
TruthyStr(s) == s # Undefined /\ s # ""

----------------------------------------------------------------------------
(* Upstream vessel records (MstZoneVessel); 0 stands for an absent mmsi/imo *)

NaN == 99999

Vessel(mmsi, imo, name, received, lat, lng) ==
    [mmsi |-> mmsi, imo |-> imo, vessel_name |-> name, received |-> received,
     lat |-> lat, lng |-> lng]

V1 == Vessel(211, 0, "ALPHA", "t1", 2100, 600)
V1b == Vessel(211, 0, "ALPHA", "t2", 2160, 660)
V2 == Vessel(0, 922, "BRAVO", "t1", 2200, 700)
V3 == Vessel(0, 0, "CHARLIE", "t1", NaN, 700)

Vessels == {V1, V1b, V2, V3}

----------------------------------------------------------------------------
(* The TTL cache of MyShipTrackingClient *)

NoEntry == [payload |-> Null, expiresAt |-> -1]

\* code-unit order of the parameter names, as Array.prototype.sort() orders them
NameOrder ==
    <<"a", "b", "days", "fromdate", "imo", "maxlat", "maxlon", "minlat",
      "minlon", "minutesBack", "mmsi", "name", "port_id", "response",
      "timegroup", "todate", "unloco">>

Rank(name) == CHOOSE i \in 1..Len(NameOrder) : NameOrder[i] = name

RECURSIVE InsertSorted(_, _)
InsertSorted(sorted, p) ==
    IF sorted = <<>> THEN <<p>>
    ELSE IF Rank(p[1]) < Rank(Head(sorted)[1]) THEN <<p>> \o sorted
    ELSE <<Head(sorted)>> \o InsertSorted(Tail(sorted), p)

RECURSIVE SortParams(_)
SortParams(params) ==
    IF params = <<>> THEN <<>>
    ELSE InsertSorted(SortParams(Tail(params)), Head(params))

\* sanitizeParams: entries whose value is undefined are left out
sanitizeParams(params) == SelectSeq(params, LAMBDA p : p[2] # Undefined)

RECURSIVE JoinParams(_)
JoinParams(sorted) ==
    IF sorted = <<>> THEN ""
    ELSE IF Len(sorted) = 1 THEN sorted[1][1] \o ":" \o sorted[1][2]
    ELSE sorted[1][1] \o ":" \o sorted[1][2] \o "|" \o JoinParams(Tail(sorted))

\* buildCacheKey: `${path}?${key:value joined by |, keys sorted}`
buildCacheKey(path, params) == path \o "?" \o JoinParams(SortParams(params))

HasEntry(c, key) == key \in DOMAIN c

EntryOf(c, key) == IF HasEntry(c, key) THEN c[key] ELSE NoEntry

\* entry.expiresAt < Date.now()
Expired(entry, t) == entry.expiresAt < t

\* readCache: the value returned (Null stands for undefined too)
readCacheValue(c, key, t) ==
    IF ~HasEntry(c, key) THEN Null
    ELSE IF Expired(c[key], t) THEN Null
    ELSE c[key].payload

readCacheMap_Keep(c, key, t) == c

\* readCache: the cache it leaves (an expired entry of the key is deleted)
readCacheMap(c, key, t) ==
    IF HasEntry(c, key) /\ Expired(c[key], t)
    THEN [k \in DOMAIN c \ {key} |-> c[k]]
    ELSE c

\* writeCache
writeCache(c, key, payload, ttlMs, t) ==
    IF ttlMs <= 0 THEN c
    ELSE [k \in DOMAIN c \cup {key} |->
            IF k = key THEN [payload |-> payload, expiresAt |-> t + ttlMs]
            ELSE c[k]]

\* request, up to its first await: whether the cache is consulted
Consults(cacheMs) == cacheMs > 0

\* request: the cached value it returns at once, Null when it goes on to fetch
CachedFor(c, key, cacheMs, t) ==
    IF Consults(cacheMs) THEN readCacheValue(c, key, t) ELSE Null

CacheAfterLookup(c, key, cacheMs, t) ==
    IF Consults(cacheMs) THEN readCacheMap(c, key, t) ELSE c

----------------------------------------------------------------------------
(* Upstream responses: response.ok, whether the body parses, the envelope *)

Response(ok, json, status, data) ==
    [ok |-> ok, json |-> json, status |-> status, data |-> data]

Payloads == {Null, Data(<<V1>>)}

Responses ==
    {Response(TRUE, TRUE, "success", d) : d \in Payloads}
    \cup {Response(FALSE, TRUE, "success", Data(<<V1>>)),
          Response(TRUE, TRUE, "error", Null),
          Response(TRUE, FALSE, "", Null)}

\* request after the fetch: JSON.parse succeeded, response.ok and status "success"
Succeeds(resp) == resp.json /\ resp.ok /\ resp.status = "success"

----------------------------------------------------------------------------
(* The calls of the client *)

\* a slot: the call (api, path, params, ttl, key), its state and outcome, and
\* what it observed: looked (readCache was called), seen (the entry of its key
\* when it was issued: "none", "live" or "expired", and the payload of a live
\* one), wroteExp (the expiry it wrote), afterFail (it is the first identical
\* call issued after an upstream failure), followed (a failed call has been
\* followed by an identical one)
IdleSlot ==
    [st |-> "idle", api |-> "", path |-> "", params |-> <<>>, ttl |-> 0,
     key |-> "", result |-> Null, err |-> "", fetches |-> 0, looked |-> FALSE,
     seen |-> "none", seenPayload |-> Null, wroteExp |-> -1,
     afterFail |-> FALSE, followed |-> FALSE]

SeenState(c, key, t) ==
    IF ~HasEntry(c, key) THEN "none"
    ELSE IF Expired(c[key], t) THEN "expired"
    ELSE "live"

SeenPayload(c, key, t) ==
    IF SeenState(c, key, t) = "live" THEN c[key].payload ELSE Null

Slots == 1..MaxReq

Query(path, params) == [path |-> path, params |-> params]

\* the (path, params) pairs handed to request directly
Queries ==
    {Query("vessel/zone", << <<"a", "1">>, <<"b", "2">> >>),
     Query("vessel/zone", << <<"b", "2">>, <<"a", "1">> >>),
     Query("vessel/zone", << <<"a", "1">>, <<"b", Undefined>> >>),
     Query("vessel", << <<"mmsi", "211">> >>)}

StatusParams ==
    {<< <<"mmsi", "211">> >>,
     << <<"mmsi", Undefined>>, <<"imo", "922">> >>,
     << <<"mmsi", Undefined>>, <<"imo", Undefined>> >>}

ParamValue(params, name) ==
    IF \E i \in 1..Len(params) : params[i][1] = name
    THEN params[CHOOSE i \in 1..Len(params) : params[i][1] = name][2]
    ELSE Undefined

\* the slots are taken in order
CanStart(r) ==
    /\ req[r].st = "idle"
    /\ \A q \in Slots : q < r => req[q].st # "idle"

\* the calls of this key and ttl whose upstream call failed and that no
\* identical call has followed yet
Unfollowed(key, ttl) ==
    {q \in Slots : /\ req[q].st = "error" /\ req[q].err = "upstream"
                   /\ req[q].key = key /\ req[q].ttl = ttl
                   /\ ~req[q].followed}

Follow(rq, key, ttl) ==
    [q \in Slots |-> IF q \in Unfollowed(key, ttl)
                     THEN [rq[q] EXCEPT !.followed = TRUE] ELSE rq[q]]

\* the apiKey getter throws "Missing MST_API_KEY environment variable"
MissingKey_Never == FALSE

MissingKey == ~apiKey

\* request(path, params, cacheMs) up to the await of fetch
RequestStart(r, api, path, params, cacheMs) ==
    LET normalizedParams == sanitizeParams(params)
        cacheKey == buildCacheKey(path, normalizedParams)
        cached == CachedFor(cache, cacheKey, cacheMs, now)
        base == [IdleSlot EXCEPT
                    !.api = api, !.path = path, !.params = params,
                    !.ttl = cacheMs, !.key = cacheKey,
                    !.looked = Consults(cacheMs),
                    !.seen = SeenState(cache, cacheKey, now),
                    !.seenPayload = SeenPayload(cache, cacheKey, now),
                    !.afterFail = (Unfollowed(cacheKey, cacheMs) # {})]
    IN  /\ cache' = CacheAfterLookup(cache, cacheKey, cacheMs, now)
        /\ IF Truthy(cached)
           THEN /\ req' = [Follow(req, cacheKey, cacheMs) EXCEPT ![r] =
                              [base EXCEPT !.st = "done", !.result = cached]]
                /\ UNCHANGED upstreamCalls
           ELSE IF MissingKey
           THEN /\ req' = [Follow(req, cacheKey, cacheMs) EXCEPT ![r] =
                              [base EXCEPT !.st = "error", !.err = "config"]]
                /\ UNCHANGED upstreamCalls
           ELSE /\ req' = [Follow(req, cacheKey, cacheMs) EXCEPT ![r] =
                              [base EXCEPT !.st = "inflight", !.fetches = 1]]
                /\ upstreamCalls' = upstreamCalls + 1
        /\ UNCHANGED <<now, apiKey, plannerVars>>

\* a direct call of request
IssueRequest(r) ==
    /\ CanStart(r)
    /\ \E q \in Queries, ttl \in 0..MaxTtl :
          RequestStart(r, "request", q.path, q.params, ttl)

\* getVesselStatus: the identifier check, then request("vessel", params, 0)
StatusCacheMs_Default == MaxTtl

StatusCacheMs == 0

GetVesselStatus(r) ==
    /\ CanStart(r)
    /\ \E params \in StatusParams :
          IF ~TruthyStr(ParamValue(params, "mmsi"))
             /\ ~TruthyStr(ParamValue(params, "imo"))
          THEN /\ req' = [req EXCEPT ![r] =
                             [IdleSlot EXCEPT
                                 !.st = "error", !.err = "validation",
                                 !.api = "getVesselStatus", !.path = "vessel",
                                 !.params = params]]
               /\ UNCHANGED <<cache, now, apiKey, upstreamCalls, plannerVars>>
          ELSE RequestStart(r, "getVesselStatus", "vessel", params,
                            StatusCacheMs)

\* request after the fetch: the upstream call ends in failure
UpstreamFails(r) ==
    /\ req[r].st = "inflight"
    /\ \E resp \in Responses :
          /\ ~Succeeds(resp)
          /\ req' = [req EXCEPT ![r].st = "error", ![r].err = "upstream"]
    /\ UNCHANGED <<cache, now, apiKey, upstreamCalls, plannerVars>>

\* request after the fetch: success, the data is cached (ttl > 0) and returned
UpstreamSucceeds(r) ==
    /\ req[r].st = "inflight"
    /\ \E resp \in Responses :
          /\ Succeeds(resp)
          /\ cache' = writeCache(cache, req[r].key, resp.data, req[r].ttl, now)
          /\ req' = [req EXCEPT ![r].st = "done", ![r].result = resp.data,
                                ![r].wroteExp =
                                    IF req[r].ttl > 0 THEN now + req[r].ttl
                                    ELSE -1]
    /\ UNCHANGED <<now, apiKey, upstreamCalls, plannerVars>>

Tick ==
    /\ now < MaxTime
    /\ now' = now + 1
    /\ UNCHANGED <<cache, apiKey, req, upstreamCalls, plannerVars>>

----------------------------------------------------------------------------
(* area.ts: configuration, presets and the bounding-box normalizer *)

MaxResultsCfg == 2  \* largest configured MST_MAX_RESULTS
MaxTokens == 2      \* tokens of an area expression
MaxResp == 2        \* vessels of one upstream zone response

\* degrees in arc minutes
Deg(d) == d * 60

Min(a, b) == IF a < b THEN a ELSE b

Max(a, b) == IF a > b THEN a ELSE b

Config(maxLatSpan, maxLonSpan, maxResults, defaultMinutesBack) ==
    [maxLatSpan |-> maxLatSpan, maxLonSpan |-> maxLonSpan,
     maxResults |-> maxResults, defaultMinutesBack |-> defaultMinutesBack]

\* the limits when the environment sets none, but for MST_MAX_RESULTS
DefaultConfig == Config(Deg(10), Deg(25), MaxResultsCfg, 60)

DEFAULT_MINUTES_BACK == cfg.defaultMinutesBack

MAX_LAT_SPAN == cfg.maxLatSpan

MAX_LON_SPAN == cfg.maxLonSpan

MAX_RESULTS == cfg.maxResults

Box(minLat, maxLat, minLon, maxLon) ==
    [minLat |-> minLat, maxLat |-> maxLat, minLon |-> minLon, maxLon |-> maxLon]

AREA_PRESETS ==
    "WMED" :> Box(Deg(34), Deg(42), Deg(-6), Deg(15))
    @@ "EMED" :> Box(Deg(30), Deg(42), Deg(15), Deg(36))
    @@ "CMED" :> Box(Deg(32), Deg(40), Deg(10), Deg(24))
    @@ "BSEA" :> Box(Deg(40), Deg(47), Deg(27), Deg(42))
    @@ "CARIB" :> Box(Deg(10), Deg(22), Deg(-88), Deg(-60))

clampNumber_Identity(value, min, max) == value

clampNumber(value, min, max) == Min(Max(value, min), max)

LatSpan(box) == Max(box.minLat, box.maxLat) - Min(box.minLat, box.maxLat)

LonSpan(box) == Max(box.minLon, box.maxLon) - Min(box.minLon, box.maxLon)

\* normalizeBox throws "Bounding box too large"
TooLarge_LatOnly(box) == LatSpan(box) > MAX_LAT_SPAN

TooLarge(box) == LatSpan(box) > MAX_LAT_SPAN \/ LonSpan(box) > MAX_LON_SPAN

\* normalizeBox, when it does not throw
normalizeBox(box) ==
    Box(clampNumber(Min(box.minLat, box.maxLat), Deg(-90), Deg(90)),
        clampNumber(Max(box.minLat, box.maxLat), Deg(-90), Deg(90)),
        clampNumber(Min(box.minLon, box.maxLon), Deg(-180), Deg(180)),
        clampNumber(Max(box.minLon, box.maxLon), Deg(-180), Deg(180)))

\* A token of an area expression, as split(",") and trim() leave it: its text
\* up to the first ":", whether it has a ":", and the Number() of each "|"
\* field of what follows the ":" (NaN for a field that is no number).
Token(text, colon, fields) == [text |-> text, colon |-> colon, fields |-> fields]

UpperCaseOf == "wmed" :> "WMED" @@ "Cmed" :> "CMED" @@ "bbox" :> "BBOX"

LowerCaseOf == "BBox" :> "bbox" @@ "WMED" :> "wmed" @@ "EMED" :> "emed"

toUpperCase(text) == IF text \in DOMAIN UpperCaseOf THEN UpperCaseOf[text] ELSE text

toLowerCase(text) == IF text \in DOMAIN LowerCaseOf THEN LowerCaseOf[text] ELSE text

\* !trimmed
Blank(token) == token.text = "" /\ ~token.colon

\* trimmed.toUpperCase() in AREA_PRESETS
IsPreset(token) == ~token.colon /\ toUpperCase(token.text) \in DOMAIN AREA_PRESETS

\* trimmed.toLowerCase().startsWith("bbox:") with four fields, none NaN
IsBbox(token) ==
    /\ token.colon
    /\ toLowerCase(token.text) = "bbox"
    /\ Len(token.fields) = 4
    /\ \A i \in 1..Len(token.fields) : token.fields[i] # NaN

\* parseBoundingBoxToken: <<box>>, or <<>> for null
parseBoundingBoxToken(token) ==
    IF Blank(token) THEN <<>>
    ELSE IF IsPreset(token) THEN <<AREA_PRESETS[toUpperCase(token.text)]>>
    ELSE IF IsBbox(token)
    THEN <<[minLat |-> token.fields[1], minLon |-> token.fields[2],
            maxLat |-> token.fields[3], maxLon |-> token.fields[4]]>>
    ELSE <<>>

RECURSIVE ParsedBoxes(_)
ParsedBoxes(tokens) ==
    IF tokens = <<>> THEN <<>>
    ELSE parseBoundingBoxToken(Head(tokens)) \o ParsedBoxes(Tail(tokens))

SeqMap(Op(_), s) == [i \in 1..Len(s) |-> Op(s[i])]

\* tokenizeAreaExpression throws (normalizeBox of some parsed box throws)
TokenizeThrows(expression) ==
    /\ expression # <<>>
    /\ \E i \in 1..Len(ParsedBoxes(expression)) :
          TooLarge(ParsedBoxes(expression)[i])

\* tokenizeAreaExpression, when it does not throw
Fallback_Empty(boxes) == boxes

Fallback(boxes) == IF boxes = <<>> THEN <<AREA_PRESETS["WMED"]>> ELSE boxes

tokenizeAreaExpression(expression) ==
    IF expression = <<>> THEN <<AREA_PRESETS["WMED"]>>
    ELSE Fallback(SeqMap(normalizeBox,
                         ParsedBoxes(SelectSeq(expression,
                                               LAMBDA t : ~Blank(t)))))

\* minutesBack of the caller, in tenths of a minute; Absent for undefined
Absent == 88888

\* Math.round of a number given in tenths
MathRound(tenths) == (tenths + 5) \div 10

formatMinutesBack(minutesBack) ==
    IF minutesBack = Absent \/ minutesBack = 0 \/ minutesBack = NaN
    THEN DEFAULT_MINUTES_BACK
    ELSE clampNumber(MathRound(minutesBack), 60, 720)

----------------------------------------------------------------------------
(* utils/shipTransform: the ship normalizer *)

Digits == <<"0", "1", "2", "3", "4", "5", "6", "7", "8", "9">>

\* String(n) of an integer
RECURSIVE StrNat(_)
StrNat(n) == IF n < 10 THEN Digits[n + 1] ELSE StrNat(n \div 10) \o Digits[(n % 10) + 1]

Str(n) == IF n < 0 THEN "-" \o StrNat(-n) ELSE StrNat(n)

\* [name, timestamp].filter(Boolean).join("-")
JoinNameTime(name, timestamp) ==
    IF name # "" /\ timestamp # "" THEN name \o "-" \o timestamp
    ELSE name \o timestamp

buildShipId_NoSynthetic(mmsi, imo, name, timestamp, t) ==
    IF mmsi # 0 THEN Str(mmsi)
    ELSE IF imo # 0 THEN Str(imo)
    ELSE JoinNameTime(name, timestamp)

buildShipId(mmsi, imo, name, timestamp, t) ==
    IF mmsi # 0 THEN Str(mmsi)
    ELSE IF imo # 0 THEN Str(imo)
    ELSE IF JoinNameTime(name, timestamp) # "" THEN JoinNameTime(name, timestamp)
    ELSE "ship-" \o Str(t)

\* mapZoneVesselToShip at time t: the fields of ShipSummary that vary
mapZoneVesselToShip(vessel, t) ==
    [id |-> buildShipId(vessel.mmsi, vessel.imo, vessel.vessel_name,
                        vessel.received, t),
     name |-> vessel.vessel_name, lat |-> vessel.lat, lon |-> vessel.lng,
     timestamp |-> vessel.received]

----------------------------------------------------------------------------
(* area.ts: the planner *)

Take(s, n) == SubSeq(s, 1, Min(Max(n, 0), Len(s)))

\* mapZoneResults: drop the ships without a position, keep the first MAX_RESULTS
mapZoneResults(ships) ==
    Take(SelectSeq(ships, LAMBDA ship : ship.lat # NaN /\ ship.lon # NaN),
         MAX_RESULTS)

HasId(ships, id) == \E i \in 1..Len(ships) : ships[i].id = id

\* if (!dedup.has(mapped.id)) dedup.set(mapped.id, mapped)
DedupSet_Always(dedup, mapped) == Append(dedup, mapped)

DedupSet_Overwrite(dedup, mapped) ==
    IF HasId(dedup, mapped.id)
    THEN [j \in 1..Len(dedup) |->
            IF dedup[j].id = mapped.id THEN mapped ELSE dedup[j]]
    ELSE Append(dedup, mapped)

DedupSet(dedup, mapped) ==
    IF HasId(dedup, mapped.id) THEN dedup ELSE Append(dedup, mapped)

\* vessels.forEach(...) of fetchVesselsInArea: dedup as the Map's values in
\* insertion order
RECURSIVE MergeVessels(_, _, _)
MergeVessels(dedup, vessels, t) ==
    IF vessels = <<>> THEN dedup
    ELSE MergeVessels(DedupSet(dedup, mapZoneVesselToShip(Head(vessels), t)),
                      Tail(vessels), t)

\* the ZoneQuery built for a box
ZoneQuery(box, minutesBack) ==
    [minLat |-> box.minLat, maxLat |-> box.maxLat, minLon |-> box.minLon,
     maxLon |-> box.maxLon, minutesBack |-> minutesBack]

\* getVesselsInZone: the parameters handed to request
ZoneParams(query) ==
    << <<"minlat", Str(query.minLat)>>, <<"maxlat", Str(query.maxLat)>>,
       <<"minlon", Str(query.minLon)>>, <<"maxlon", Str(query.maxLon)>>,
       <<"response", "simple">> >>
    \o (IF query.minutesBack # 0 /\ query.minutesBack # NaN
        THEN << <<"minutesBack", Str(query.minutesBack)>> >> ELSE <<>>)

ZONE_CACHE_MS == 300000

ZoneKey(query) == buildCacheKey("vessel/zone", sanitizeParams(ZoneParams(query)))

\* nauticalMilesToLatDelta, in arc minutes
nauticalMilesToLatDelta_Degrees(distanceNm) == Deg(distanceNm)

nauticalMilesToLatDelta(distanceNm) == distanceNm

\* Math.cos of a latitude, in thousandths, at the latitudes of NearLats
CosMilli(latitude) ==
    CASE latitude = 0 -> 1000
      [] latitude = Deg(60) \/ latitude = Deg(-60) -> 500
      [] latitude = Deg(89) -> 17
      [] latitude = Deg(90) \/ latitude = Deg(-90) -> 0

\* nauticalMilesToLonDelta, in arc minutes
nauticalMilesToLonDelta_NoFloor(distanceNm, latitude) ==
    (distanceNm * 1000) \div Max(CosMilli(latitude), 1)

nauticalMilesToLonDelta(distanceNm, latitude) ==
    (distanceNm * 1000) \div Max(CosMilli(latitude), 100)

NearBox(lat, lon, distance) ==
    Box(lat - nauticalMilesToLatDelta(clampNumber(distance, 1, 50)),
        lat + nauticalMilesToLatDelta(clampNumber(distance, 1, 50)),
        lon - nauticalMilesToLonDelta(clampNumber(distance, 1, 50), lat),
        lon + nauticalMilesToLonDelta(clampNumber(distance, 1, 50), lat))

\* The request being served: mode ("area", "nearme"), its inputs (expr, mbIn,
\* center as <<lat, lon, distance>>),
\* the locals of the planner (boxes, i, minutesBack, dedup), where it stands
\* (pc: "idle", "loop", "await", "done", "failed") and what the route handler
\* answered (http, result, cbCount, err).
IdlePlan ==
    [mode |-> "", pc |-> "idle", expr |-> <<>>, mbIn |-> Absent,
     center |-> <<>>, boxes |-> <<>>, i |-> 0, minutesBack |-> 0, dedup |-> <<>>, result |-> <<>>, cbCount |-> 0,
     http |-> 0, err |-> ""]

\* cb(result): res.json(result)
Callback(p, result) ==
    [p EXCEPT !.pc = "done", !.http = 200, !.result = result,
              !.cbCount = p.cbCount + 1]

\* the planner throws; the catch of the route handler answers
\* res.status(400).json({error, data: []})
Fail_PartialResults(p, err) ==
    [Callback(p, p.dedup) EXCEPT !.err = err]

Fail(p, err) == [p EXCEPT !.pc = "failed", !.http = 400, !.err = err]

\* if (dedup.size >= MAX_RESULTS) break
CapReached_Never(dedup) == FALSE

CapReached(dedup) == Len(dedup) >= MAX_RESULTS

\* the planner once the vessels of the current box are there
AfterVessels(p, vessels, t) ==
    IF p.mode = "nearme"
    THEN Callback(p, mapZoneResults(SeqMap(LAMBDA v : mapZoneVesselToShip(v, t),
                                           vessels)))
    ELSE LET dedup == MergeVessels(p.dedup, vessels, t)
         IN  IF CapReached(dedup) \/ p.i = Len(p.boxes)
             THEN Callback([p EXCEPT !.dedup = dedup], mapZoneResults(dedup))
             ELSE [p EXCEPT !.dedup = dedup, !.i = p.i + 1, !.pc = "loop"]

\* the planner once request has returned data: vessels.forEach / vessels.map
\* of null throws a TypeError
AfterData(p, data, t) ==
    IF data.null THEN Fail(p, "type") ELSE AfterVessels(p, data.list, t)

\* GET /legacy/getVesselsInArea/:area up to the first zone query
StartArea(exprs, mbs) ==
    /\ plan.pc = "idle"
    /\ \E expr \in exprs, mb \in mbs :
          plan' =
             IF TokenizeThrows(expr)
             THEN Fail([plan EXCEPT !.mode = "area", !.expr = expr, !.mbIn = mb],
                       "too_large")
             ELSE IF tokenizeAreaExpression(expr) = <<>>
             THEN Callback([plan EXCEPT !.mode = "area", !.expr = expr,
                                        !.mbIn = mb,
                                        !.minutesBack = formatMinutesBack(mb)],
                           mapZoneResults(<<>>))
             ELSE [plan EXCEPT !.mode = "area", !.expr = expr, !.mbIn = mb,
                               !.boxes = tokenizeAreaExpression(expr),
                               !.minutesBack = formatMinutesBack(mb),
                               !.i = 1, !.pc = "loop"]
    /\ UNCHANGED <<cache, now, apiKey, req, upstreamCalls, cfg, zoneQueries,
                   inflight>>

\* GET /legacy/getVesselsNearMe/:lat/:lng/:distance up to the zone query
StartNearMe(lats, lons, dists, mbs) ==
    /\ plan.pc = "idle"
    /\ \E lat \in lats, lon \in lons, dist \in dists, mb \in mbs :
          plan' =
             IF lat = NaN \/ lon = NaN \/ dist = NaN
             THEN Fail([plan EXCEPT !.mode = "nearme", !.mbIn = mb], "numeric")
             ELSE [plan EXCEPT !.mode = "nearme", !.mbIn = mb,
                               !.center = <<lat, lon, dist>>,
                               !.boxes = <<NearBox(lat, lon, dist)>>,
                               !.minutesBack = formatMinutesBack(mb),
                               !.i = 1, !.pc = "loop"]
    /\ UNCHANGED <<cache, now, apiKey, req, upstreamCalls, cfg, zoneQueries,
                   inflight>>

\* where the planner stands once fetch has been called
PcAfterFetch_NoAwait == "loop"

PcAfterFetch == "await"

\* mstClient.getVesselsInZone(query) for the current box, up to the await of
\* fetch: served from the cache, rejected for want of a credential, or sent
IssueZone ==
    /\ plan.pc = "loop"
    /\ LET query == ZoneQuery(plan.boxes[plan.i], plan.minutesBack)
           cacheKey == ZoneKey(query)
           cached == CachedFor(cache, cacheKey, ZONE_CACHE_MS, now)
       IN  /\ zoneQueries' = Append(zoneQueries, query)
           /\ cache' = CacheAfterLookup(cache, cacheKey, ZONE_CACHE_MS, now)
           /\ IF Truthy(cached)
              THEN /\ plan' = AfterData(plan, cached, now)
                   /\ UNCHANGED <<upstreamCalls, inflight>>
              ELSE IF MissingKey
              THEN /\ plan' = Fail(plan, "config")
                   /\ UNCHANGED <<upstreamCalls, inflight>>
              ELSE /\ plan' = [plan EXCEPT !.pc = PcAfterFetch]
                   /\ upstreamCalls' = upstreamCalls + 1
                   /\ inflight' = inflight \cup {plan.i}
    /\ UNCHANGED <<now, apiKey, req, cfg>>

ZoneLists == UNION {[1..k -> Vessels] : k \in 0..MaxResp}

\* the zone query of the current box fails upstream
ZoneFails ==
    /\ plan.pc = "await"
    /\ \E resp \in Responses : ~Succeeds(resp)
    /\ plan' = Fail(plan, "upstream")
    /\ inflight' = inflight \ {plan.i}
    /\ UNCHANGED <<cache, now, apiKey, req, upstreamCalls, cfg, zoneQueries>>

\* the zone query of the current box succeeds: request caches and returns the
\* data, the planner merges it
ZoneSucceeds ==
    /\ plan.pc = "await"
    /\ \E data \in {Null} \cup {Data(l) : l \in ZoneLists} :
          /\ Succeeds(Response(TRUE, TRUE, "success", data))
          /\ cache' = writeCache(cache,
                                 ZoneKey(ZoneQuery(plan.boxes[plan.i],
                                                   plan.minutesBack)),
                                 data, ZONE_CACHE_MS, now)
          /\ plan' = AfterData(plan, data, now)
    /\ inflight' = inflight \ {plan.i}
    /\ UNCHANGED <<now, apiKey, req, upstreamCalls, cfg, zoneQueries>>

\* time passes while a planner request is served
Instants == {0, ZONE_CACHE_MS, ZONE_CACHE_MS + 1}

Elapse ==
    /\ \E t \in Instants : t > now /\ now' = t
    /\ UNCHANGED <<cache, apiKey, req, upstreamCalls, plannerVars>>

----------------------------------------------------------------------------
(* Spec: the gateway calls the client, calls overlapping *)

Init ==
    /\ cache = <<>>
    /\ now = 0
    /\ apiKey \in BOOLEAN
    /\ req = [r \in Slots |-> IdleSlot]
    /\ upstreamCalls = 0
    /\ cfg = DefaultConfig
    /\ plan = IdlePlan
    /\ zoneQueries = <<>>
    /\ inflight = {}

Next ==
    \/ \E r \in Slots : IssueRequest(r)
    \/ \E r \in Slots : GetVesselStatus(r)
    \/ \E r \in Slots : UpstreamFails(r)
    \/ \E r \in Slots : UpstreamSucceeds(r)
    \/ Tick

Spec == Init /\ [][Next]_vars

----------------------------------------------------------------------------
(* SpecArea: one area request served by the gateway *)

T_WMED == Token("WMED", FALSE, <<>>)
T_cmed == Token("Cmed", FALSE, <<>>)
T_EMED == Token("EMED", FALSE, <<>>)
T_foo == Token("foo", FALSE, <<>>)
T_blank == Token("", FALSE, <<>>)
T_bbox == Token("bbox", TRUE, <<Deg(36), Deg(10), Deg(41), Deg(18)>>)
T_bboxInverted == Token("BBox", TRUE, <<Deg(41), Deg(18), Deg(36), Deg(10)>>)
T_bboxNaN == Token("bbox", TRUE, <<Deg(36), NaN, Deg(41), Deg(18)>>)
T_bboxThree == Token("bbox", TRUE, <<Deg(36), Deg(10), Deg(41)>>)
T_bboxWide == Token("bbox", TRUE, <<Deg(0), Deg(0), Deg(5), Deg(30)>>)

AreaTokens ==
    {T_WMED, T_cmed, T_EMED, T_foo, T_blank, T_bbox, T_bboxInverted, T_bboxNaN,
     T_bboxThree, T_bboxWide}

AreaExpressions == UNION {[1..k -> AreaTokens] : k \in 0..MaxTokens}

AreaConfigs ==
    {Config(Deg(10), Deg(25), m, 60) : m \in 1..MaxResultsCfg}
    \cup {Config(Deg(5), Deg(25), MaxResultsCfg, 60)}

InitArea ==
    /\ cache = <<>>
    /\ now = 0
    /\ apiKey \in BOOLEAN
    /\ req = [r \in Slots |-> IdleSlot]
    /\ upstreamCalls = 0
    /\ cfg \in AreaConfigs
    /\ plan = IdlePlan
    /\ zoneQueries = <<>>
    /\ inflight = {}

StartAreaRequest == StartArea(AreaExpressions, {Absent, 450})

NextArea ==
    \/ StartAreaRequest
    \/ IssueZone
    \/ ZoneFails
    \/ ZoneSucceeds
    \/ Elapse

SpecArea == InitArea /\ [][NextArea]_vars

----------------------------------------------------------------------------
(* SpecPlanner: one area or near-me request, minutesBack and the configured *)
(* default varying                                                         *)

\* minutesBack of the caller in tenths: absent, not a number, 0, 0.4, 45,
\* 59.5, 60.4, 60.5, 720.4, 720.6, 1000, -5
MinutesInputs ==
    {Absent, NaN, 0, 4, 450, 595, 604, 605, 7204, 7206, 10000, -50}

PlannerExpressions == {<<>>, <<T_bbox>>, <<T_WMED, T_bbox>>}

PlannerConfigs == {Config(Deg(10), Deg(25), MaxResultsCfg, d) : d \in {60, 120}}

NearLats == {0, Deg(60), Deg(90)}

NearLons == {0, Deg(179)}

NearDists == {0, 5, 60, NaN}

InitPlanner ==
    /\ cache = <<>>
    /\ now = 0
    /\ apiKey \in BOOLEAN
    /\ req = [r \in Slots |-> IdleSlot]
    /\ upstreamCalls = 0
    /\ cfg \in PlannerConfigs
    /\ plan = IdlePlan
    /\ zoneQueries = <<>>
    /\ inflight = {}

StartAreaMinutes == StartArea(PlannerExpressions, MinutesInputs)

StartNearMeRequest == StartNearMe(NearLats, NearLons, NearDists, MinutesInputs)

NextPlanner ==
    \/ StartAreaMinutes
    \/ StartNearMeRequest
    \/ IssueZone
    \/ ZoneFails
    \/ ZoneSucceeds
    \/ Elapse

SpecPlanner == InitPlanner /\ [][NextPlanner]_vars

----------------------------------------------------------------------------
(* Claims about the client *)

Issued(r) == req[r].st # "idle"

\* r went through request (it was not rejected before it)
Requested(r) == Issued(r) /\ req[r].err # "validation"

ParamMap(params) ==
    {sanitizeParams(params)[i] : i \in 1..Len(sanitizeParams(params))}

\* the same path and the same parameters, in any order
SameQuery(r, q) ==
    /\ req[r].path = req[q].path
    /\ ParamMap(req[r].params) = ParamMap(req[q].params)

\* C1: a request with ttl > 0 that finds a live entry of its key (one whose
\* expiry time is not before the time of the request) returns the cached data
\* and issues no upstream call; one that finds an expired entry issues an
\* upstream call; a cached entry is never returned after its expiry; identical
\* requests (parameters in any order) share the key, and every entry is what a
\* successful request of that key wrote, expiring ttl after its completion.
C1_CacheWithinTtl ==
    /\ \A r \in Slots :
          (Requested(r) /\ req[r].ttl > 0) =>
             /\ req[r].seen = "live" =>
                   /\ req[r].st = "done"
                   /\ req[r].fetches = 0
                   /\ req[r].result = req[r].seenPayload
             /\ req[r].seen = "expired" => req[r].fetches = 1
             /\ (req[r].st = "done" /\ req[r].fetches = 0) =>
                   req[r].seen = "live"
    /\ \A r, q \in Slots :
          (Requested(r) /\ Requested(q) /\ SameQuery(r, q)) =>
             req[r].key = req[q].key
    /\ \A k \in DOMAIN cache :
          \E r \in Slots :
             /\ req[r].st = "done" /\ req[r].fetches = 1 /\ req[r].ttl > 0
             /\ req[r].key = k
             /\ cache[k] = [payload |-> req[r].result,
                            expiresAt |-> req[r].wroteExp]

\* C2: a request whose upstream call failed raised an error and returned no
\* data, and the first identical request issued after the failure issues a new
\* upstream call.
C2_FailureThenRefetch ==
    \A r \in Slots :
       /\ (req[r].st = "error" /\ req[r].err = "upstream") =>
             req[r].result = Null
       /\ (Requested(r) /\ req[r].afterFail) => req[r].fetches = 1

\* the step with which the upstream call of a request fails changes no cache
\* entry
RequestFailureKeepsCache ==
    [][(\E r \in Slots : req[r].st = "inflight" /\ req'[r].st = "error")
         => cache' = cache]_vars

IsStatus(r) == req[r].api = "getVesselStatus"

\* C9: every step of a getVesselStatus call leaves the cache as it is; a call
\* that carries an mmsi or imo (with the credential configured) issues an
\* upstream call when it is made, without calling readCache.
C9_StatusNeverCached ==
    [][\A r \in Slots :
          (req'[r] # req[r] /\ req'[r].api = "getVesselStatus") =>
             /\ cache' = cache
             /\ ~req'[r].looked
             /\ (req[r].st = "idle" /\ req'[r].err # "validation" /\ apiKey) =>
                   /\ req'[r].st = "inflight"
                   /\ upstreamCalls' = upstreamCalls + 1]_vars

\* a status call went upstream and succeeded although an identical one had
\* succeeded just before and a live entry of its key was in the cache, which
\* is still there
C9_Witness ==
    \E r, q \in Slots :
       /\ r < q /\ IsStatus(r) /\ IsStatus(q)
       /\ req[r].key = req[q].key
       /\ req[r].st = "done" /\ req[q].st = "done"
       /\ req[r].fetches = 1 /\ req[q].fetches = 1
       /\ req[q].seen = "live"
       /\ HasEntry(cache, req[q].key)

----------------------------------------------------------------------------
(* Claims about the area planner *)

AreaStarted == plan.mode = "area" /\ plan.pc # "idle"

Abs(n) == IF n < 0 THEN -n ELSE n

\* the box a token denotes is wider or taller than the configured maximum
DenotesOversized(token) ==
    /\ parseBoundingBoxToken(token) # <<>>
    /\ LET box == parseBoundingBoxToken(token)[1]
       IN  \/ Abs(box.maxLat - box.minLat) > cfg.maxLatSpan
           \/ Abs(box.maxLon - box.minLon) > cfg.maxLonSpan

SomeOversized(expr) == \E i \in 1..Len(expr) : DenotesOversized(expr[i])

\* C3: an area request whose expression has a parseable token denoting an
\* oversized box has failed with the "too large" error (answered 400), no
\* zone query and no upstream call was issued, and the callback was not invoked.
C3_OversizedRejected ==
    (AreaStarted /\ SomeOversized(plan.expr)) =>
       /\ plan.pc = "failed"
       /\ plan.err = "too_large"
       /\ plan.http = 400
       /\ zoneQueries = <<>>
       /\ upstreamCalls = 0
       /\ inflight = {}
       /\ plan.cbCount = 0

\* rejected although a valid box is listed before the oversized one
C3_Witness ==
    /\ AreaStarted
    /\ Len(plan.expr) = 2
    /\ ~DenotesOversized(plan.expr[1])
    /\ parseBoundingBoxToken(plan.expr[1]) # <<>>
    /\ DenotesOversized(plan.expr[2])
    /\ plan.pc = "failed"
    /\ upstreamCalls = 0

\* C4: the list passed to the callback has at most MAX_RESULTS entries, and
\* once the deduplicated set has reached MAX_RESULTS the request is over: the
\* zone queries issued are those of the boxes up to the one whose response
\* reached the cap, and none is in flight.
C4_ResultCap ==
    plan.mode = "area" =>
       /\ Len(plan.result) <= cfg.maxResults
       /\ Len(plan.dedup) >= cfg.maxResults =>
             /\ plan.pc = "done"
             /\ Len(zoneQueries) = plan.i
             /\ inflight = {}

\* the cap was reached before the last box, whose query was never issued
C4_Witness ==
    /\ plan.mode = "area"
    /\ plan.pc = "done"
    /\ Len(plan.boxes) = 2
    /\ Len(zoneQueries) = 1
    /\ Len(plan.dedup) > cfg.maxResults
    /\ Len(plan.result) = cfg.maxResults

\* C5: no two entries of the list passed to the callback have the same id.
C5_NoDuplicateIds ==
    plan.mode = "area" =>
       \A i, j \in 1..Len(plan.result) :
          plan.result[i].id = plan.result[j].id => i = j

\* a vessel came twice in one response and again in the response of the next
\* box, and the result holds it once
C5_Witness ==
    /\ plan.mode = "area"
    /\ plan.pc = "done"
    /\ Len(zoneQueries) = 2
    /\ upstreamCalls = 2
    /\ \A k \in DOMAIN cache : cache[k].payload.list = <<V1, V1b>>
    /\ Cardinality(DOMAIN cache) = 2
    /\ Len(plan.result) = 1

\* C6: the zone queries of an area request are issued one at a time in
\* expression order: the k-th query is that of the k-th box, no query of a box
\* beyond the current one has been issued, and a fetch is in flight only for
\* the current box and only while the planner awaits it.
C6_Sequential ==
    plan.mode = "area" =>
       /\ Cardinality(inflight) <= 1
       /\ Len(zoneQueries) <= plan.i
       /\ upstreamCalls <= Len(zoneQueries)
       /\ \A k \in 1..Len(zoneQueries) :
             /\ k <= Len(plan.boxes)
             /\ zoneQueries[k] = ZoneQuery(plan.boxes[k], plan.minutesBack)
       /\ plan.pc = "await" => (inflight = {plan.i} /\ Len(zoneQueries) = plan.i)
       /\ plan.pc # "await" => inflight = {}

\* the query of the second box in flight, after that of the first completed
C6_Witness ==
    /\ plan.mode = "area"
    /\ plan.pc = "await"
    /\ plan.i = 2
    /\ inflight = {2}
    /\ upstreamCalls = 2

\* C7: when the zone query of a box has failed, the request has failed: the
\* route answered 400 with the error, the callback was never invoked, no
\* result was returned, and no query of a later box was issued.
C7_FailureAborts ==
    (plan.mode = "area" /\ plan.err = "upstream") =>
       /\ plan.pc = "failed"
       /\ plan.http = 400
       /\ plan.cbCount = 0
       /\ plan.result = <<>>
       /\ Len(zoneQueries) = plan.i
       /\ inflight = {}

\* the second of two boxes failed after the first had delivered vessels
C7_Witness ==
    /\ plan.mode = "area"
    /\ plan.err = "upstream"
    /\ plan.i = 2
    /\ Len(plan.dedup) > 0
    /\ plan.cbCount = 0

\* the boxes of the parseable tokens of an expression, in expression order
RECURSIVE ParseableBoxes(_)
ParseableBoxes(expr) ==
    IF expr = <<>> THEN <<>>
    ELSE (IF IsPreset(Head(expr)) \/ IsBbox(Head(expr))
          THEN parseBoundingBoxToken(Head(expr)) ELSE <<>>)
         \o ParseableBoxes(Tail(expr))

QueryBox(query) == Box(query.minLat, query.maxLat, query.minLon, query.maxLon)

PlanOver == plan.pc \in {"done", "failed"}

\* C10: unparseable tokens raise no error (the "too large" error arises only
\* from a parseable token); the zone queries are those of the parseable
\* tokens, in expression order; and when no token parses, the request issues
\* exactly one zone query, for the box 34..42, -6..15.
C10_UnparseableDropped ==
    AreaStarted =>
       /\ plan.err = "too_large" => SomeOversized(plan.expr)
       /\ ParseableBoxes(plan.expr) # <<>> =>
             /\ Len(zoneQueries) <= Len(ParseableBoxes(plan.expr))
             /\ \A k \in 1..Len(zoneQueries) :
                   QueryBox(zoneQueries[k]) =
                      normalizeBox(ParseableBoxes(plan.expr)[k])
       /\ ParseableBoxes(plan.expr) = <<>> =>
             /\ plan.err # "too_large"
             /\ Len(zoneQueries) <= 1
             /\ PlanOver => Len(zoneQueries) = 1
             /\ \A k \in 1..Len(zoneQueries) :
                   QueryBox(zoneQueries[k]) = Box(Deg(34), Deg(42), Deg(-6), Deg(15))

\* an expression of two unparseable tokens was answered from one zone query
\* for the default box
C10_Witness ==
    /\ AreaStarted
    /\ Len(plan.expr) = 2
    /\ ParseableBoxes(plan.expr) = <<>>
    /\ plan.pc = "done"
    /\ Len(zoneQueries) = 1
    /\ upstreamCalls = 1

----------------------------------------------------------------------------
(* Claims about minutesBack *)

\* what a zone query carries upstream as minutesBack
Carried(query) == ParamValue(ZoneParams(query), "minutesBack")

\* C8: every zone query of area mode and near-me mode carries the caller's
\* minutesBack rounded to the nearest integer and clamped into [60, 720], or
\* the configured default when the caller supplied none.
C8_MinutesBackClamped ==
    (plan.mbIn # NaN) =>
       \A k \in 1..Len(zoneQueries) :
          Carried(zoneQueries[k]) =
             IF plan.mbIn = Absent THEN Str(cfg.defaultMinutesBack)
             ELSE Str(Min(Max((plan.mbIn + 5) \div 10, 60), 720))

----------------------------------------------------------------------------
(* SpecBox: one area request for a single bbox token, the four coordinates *)
(* varying over values inside and outside the valid ranges                 *)

BoxLats == {Deg(-95), Deg(-88), 0, Deg(5), Deg(88), Deg(95)}

BoxLons == {Deg(-190), Deg(-170), 0, Deg(20), Deg(170), Deg(190)}

BoxExpressions ==
    {<<Token("bbox", TRUE, <<a, b, c, d>>)>> :
        a \in BoxLats, b \in BoxLons, c \in BoxLats, d \in BoxLons}

StartBoxRequest == StartArea(BoxExpressions, {Absent})

NextBox ==
    \/ StartBoxRequest
    \/ IssueZone
    \/ ZoneFails
    \/ ZoneSucceeds
    \/ Elapse

SpecBox == InitPlanner /\ [][NextBox]_vars

----------------------------------------------------------------------------
(* Claims about the normalizer *)

\* the box of the k-th parseable token of the request, as written
RawBox(k) == ParseableBoxes(plan.expr)[k]

InRange(box) ==
    /\ Deg(-90) <= box.minLat /\ box.maxLat <= Deg(90)
    /\ Deg(-180) <= box.minLon /\ box.maxLon <= Deg(180)

\* the value of the range lo..hi nearest to v
Nearest(v, lo, hi) == IF v < lo THEN lo ELSE IF v > hi THEN hi ELSE v

\* C11: every box that normalization accepted has minLat <= maxLat and
\* minLon <= maxLon, its latitudes in [-90, 90] and its longitudes in
\* [-180, 180]; its bounds are those of the token's box, each moved to the
\* nearest value of the valid range, inverted bounds swapped.  The zone query
\* of the box carries these coordinates.
C11_NormalizedBox ==
    (AreaStarted /\ ParseableBoxes(plan.expr) # <<>> /\ plan.err # "too_large") =>
       /\ Len(plan.boxes) = Len(ParseableBoxes(plan.expr))
       /\ \A k \in 1..Len(plan.boxes) :
             LET box == plan.boxes[k]
             IN  /\ box.minLat <= box.maxLat
                 /\ box.minLon <= box.maxLon
                 /\ InRange(box)
                 /\ {box.minLat, box.maxLat} =
                       {Nearest(RawBox(k).minLat, Deg(-90), Deg(90)),
                        Nearest(RawBox(k).maxLat, Deg(-90), Deg(90))}
                 /\ {box.minLon, box.maxLon} =
                       {Nearest(RawBox(k).minLon, Deg(-180), Deg(180)),
                        Nearest(RawBox(k).maxLon, Deg(-180), Deg(180))}
       /\ \A k \in 1..Len(zoneQueries) : QueryBox(zoneQueries[k]) = plan.boxes[k]

\* a token with inverted latitudes, one of them beyond the pole, was accepted
\* and queried as 88..90
C11_Witness ==
    /\ AreaStarted
    /\ Len(plan.expr) = 1
    /\ ParseableBoxes(plan.expr) # <<>>
    /\ RawBox(1).minLat = Deg(95)
    /\ RawBox(1).maxLat = Deg(88)
    /\ RawBox(1).minLon = Deg(190)
    /\ RawBox(1).maxLon = Deg(170)
    /\ Len(zoneQueries) = 1
    /\ QueryBox(zoneQueries[1]) = Box(Deg(88), Deg(90), Deg(170), Deg(180))

----------------------------------------------------------------------------
(* legacy/api.ts: port mode.  The input of the route is a sequence of      *)
(* characters.                                                             *)

MaxPortCfg == 2     \* largest configured MST_MAX_PORT_VESSELS
MaxListing == 3     \* vessels of one in-port listing

LowerLetters ==
    <<"a", "b", "c", "d", "e", "f", "g", "h", "i", "j", "k", "l", "m", "n",
      "o", "p", "q", "r", "s", "t", "u", "v", "w", "x", "y", "z">>

UpperLetters ==
    <<"A", "B", "C", "D", "E", "F", "G", "H", "I", "J", "K", "L", "M", "N",
      "O", "P", "Q", "R", "S", "T", "U", "V", "W", "X", "Y", "Z">>

IsIn(c, letters) == \E i \in 1..Len(letters) : letters[i] = c

\* \d
IsDigit(c) == IsIn(c, Digits)

\* [A-Za-z]
IsLetter(c) == IsIn(c, LowerLetters) \/ IsIn(c, UpperLetters)

\* String.prototype.toUpperCase of one character
UpperChar(c) ==
    IF IsIn(c, LowerLetters)
    THEN UpperLetters[CHOOSE i \in 1..Len(LowerLetters) : LowerLetters[i] = c]
    ELSE c

\* the string of a sequence of characters
RECURSIVE Text(_)
Text(chars) == IF chars = <<>> THEN "" ELSE Head(chars) \o Text(Tail(chars))

RECURSIVE TrimStart(_)
TrimStart(chars) ==
    IF chars # <<>> /\ Head(chars) = " " THEN TrimStart(Tail(chars)) ELSE chars

RECURSIVE TrimEnd(_)
TrimEnd(chars) ==
    IF chars # <<>> /\ chars[Len(chars)] = " "
    THEN TrimEnd(SubSeq(chars, 1, Len(chars) - 1)) ELSE chars

\* rawInput.trim()
Trim(chars) == TrimEnd(TrimStart(chars))

\* /^\d+$/.test(trimmed)
AllDigits(chars) == chars # <<>> /\ \A i \in 1..Len(chars) : IsDigit(chars[i])

\* /^[A-Za-z]{5}$/.test(trimmed)
FiveLetters(chars) == Len(chars) = 5 /\ \A i \in 1..5 : IsLetter(chars[i])

DigitValue(c) == (CHOOSE i \in 1..Len(Digits) : Digits[i] = c) - 1

\* Number(trimmed) of an all-digit string
RECURSIVE NumberOf(_)
NumberOf(chars) ==
    IF chars = <<>> THEN 0
    ELSE 10 * NumberOf(SubSeq(chars, 1, Len(chars) - 1))
         + DigitValue(chars[Len(chars)])

\* trimmed.toUpperCase()
UpperText(chars) == Text([i \in 1..Len(chars) |-> UpperChar(chars[i])])

\* a port reference {portId, unloco, name}; 0 and "" stand for undefined
PortRef(portId, unloco, name) == [portId |-> portId, unloco |-> unloco, name |-> name]

\* an entry of the port search response (MstPortSearchResult)
PortMatch(port_id, unloco, name) == [port_id |-> port_id, unloco |-> unloco, name |-> name]

\* resolvePortIdentifier: "none" (null), "ref" (resolved without a search) or
\* "search" (searchPorts(trimmed) is to be called)
ResolveKind(rawInput) ==
    IF rawInput = <<>> THEN "none"
    ELSE IF Trim(rawInput) = <<>> THEN "none"
    ELSE IF AllDigits(Trim(rawInput)) \/ FiveLetters(Trim(rawInput)) THEN "ref"
    ELSE "search"

\* resolvePortIdentifier: the reference of an input resolved without a search
DirectRef(rawInput) ==
    IF AllDigits(Trim(rawInput))
    THEN PortRef(NumberOf(Trim(rawInput)), "", Text(Trim(rawInput)))
    ELSE PortRef(0, UpperText(Trim(rawInput)), UpperText(Trim(rawInput)))

\* resolvePortIdentifier after searchPorts: <<>> (null) or <<matches[0]>>
FirstMatch_Last(matches) ==
    IF matches = <<>> THEN <<>>
    ELSE <<PortRef(matches[Len(matches)].port_id, matches[Len(matches)].unloco,
                   matches[Len(matches)].name)>>

FirstMatch(matches) ==
    IF matches = <<>> THEN <<>>
    ELSE <<PortRef(matches[1].port_id, matches[1].unloco, matches[1].name)>>

\* MAX_PORT_VESSELS, read from the environment
PortConfig(maxPortVessels) == [maxPortVessels |-> maxPortVessels]

MAX_PORT_VESSELS == cfg.maxPortVessels

\* an entry of the in-port listing (MstPortVessel); 0 stands for an absent
\* mmsi or imo, "" for an absent arrival time
PortVessel(mmsi, name, vessel_type, flag) ==
    [mmsi |-> mmsi, imo |-> 0, name |-> name, arrived |-> "",
     vessel_type |-> vessel_type, flag |-> flag]

SEARCH_CACHE_MS == 300000

INPORT_CACHE_MS == 60000

BULK_CACHE_MS == 5000

\* list.join(",")
RECURSIVE JoinComma(_)
JoinComma(list) ==
    IF list = <<>> THEN ""
    ELSE IF Len(list) = 1 THEN list[1]
    ELSE list[1] \o "," \o JoinComma(Tail(list))

\* sanitizeList of getBulkVesselStatus (the values are trimmed strings)
sanitizeList(list) ==
    JoinComma(Take(SelectSeq(list, LAMBDA value : Len(value) > 0), 100))

\* the request being served in port mode: its input, the next client call
\* (stage: "search", "inport", "bulk"), the locals of getVesselsInPort (ref as
\* <<>> or <<portReference>>, withMmsi), what upstream returned (matches,
\* listing, statuses), the client calls that reached request (calls), where
\* it stands (pc: "idle", "call", "await", "done"), what the route answered
\* (http, result, cbCount) and the error the catch swallowed (err)
IdlePort ==
    [mode |-> "", pc |-> "idle", input |-> <<>>, stage |-> "", ref |-> <<>>,
     withMmsi |-> <<>>, matches |-> Null, listing |-> Null, statuses |-> Null,
     calls |-> <<>>, result |-> <<>>, cbCount |-> 0, http |-> 0, err |-> ""]

\* .catch: debug(...), cb([])
Swallow_Silent(p, err) == [p EXCEPT !.pc = "done", !.err = err]

Swallow(p, err) == [Callback(p, <<>>) EXCEPT !.err = err]

\* if (!portReference)
NoReference_Never(ref) == FALSE

NoReference(ref) == ref = <<>>

\* getVesselsInPort once resolvePortIdentifier has resolved
AfterResolve(p, ref) ==
    IF NoReference(ref) THEN Callback(p, <<>>)
    ELSE [p EXCEPT !.ref = ref, !.stage = "inport", !.pc = "call"]

\* statusMap.get(key): the last status set under the key, as <<>> or <<ship>>
RECURSIVE StatusFor(_, _, _)
StatusFor(statuses, key, t) ==
    IF statuses = <<>> THEN <<>>
    ELSE IF statuses[Len(statuses)].mmsi # 0
            /\ Str(statuses[Len(statuses)].mmsi) = key
    THEN <<mapZoneVesselToShip(statuses[Len(statuses)], t)>>
    ELSE StatusFor(SubSeq(statuses, 1, Len(statuses) - 1), key, t)

\* mapPortVesselToShip: a ship without a position
mapPortVesselToShip(vessel, t) ==
    [id |-> buildShipId(vessel.mmsi, vessel.imo, vessel.name, vessel.arrived, t),
     name |-> vessel.name, lat |-> NaN, lon |-> NaN,
     timestamp |-> vessel.arrived]

\* if (!base) return null
MissingStatus_Placeholder(vessel, t) == <<mapPortVesselToShip(vessel, t)>>

MissingStatus(vessel, t) == <<>>

\* {...base, type, country, destination, port_current}
MergeShip(base, vessel, ref) ==
    [id |-> base.id, name |-> base.name, lat |-> base.lat, lon |-> base.lon,
     timestamp |-> base.timestamp,
     type |-> IF vessel.vessel_type # Undefined THEN vessel.vessel_type ELSE "",
     country |-> IF vessel.flag # Undefined THEN vessel.flag ELSE "",
     port_current |-> ref.name]

\* withMmsi.map(...).filter(Boolean)
RECURSIVE Merged(_, _, _, _)
Merged(withMmsi, statuses, ref, t) ==
    IF withMmsi = <<>> THEN <<>>
    ELSE (IF StatusFor(statuses, Str(Head(withMmsi).mmsi), t) # <<>>
          THEN <<MergeShip(StatusFor(statuses, Str(Head(withMmsi).mmsi), t)[1],
                           Head(withMmsi), ref)>>
          ELSE MissingStatus(Head(withMmsi), t))
         \o Merged(Tail(withMmsi), statuses, ref, t)

\* vesselsInPort.filter((vessel) => vessel.mmsi).slice(0, MAX_PORT_VESSELS)
WithMmsi(listing) ==
    Take(SelectSeq(listing, LAMBDA vessel : vessel.mmsi # 0), MAX_PORT_VESSELS)

\* the client call of the current stage: whether the client rejects it before
\* request, and the path, parameters and ttl it hands to request
PortCall(p) ==
    CASE p.stage = "search" ->
            [api |-> "searchPorts", rejected |-> FALSE, path |-> "port/search",
             params |-> << <<"name", Text(Trim(p.input))>> >>,
             ttl |-> SEARCH_CACHE_MS]
      [] p.stage = "inport" ->
            [api |-> "getVesselsInPort",
             rejected |-> p.ref[1].portId = 0 /\ p.ref[1].unloco = "",
             path |-> "port/inport",
             params |->
                (IF p.ref[1].portId # 0
                 THEN << <<"port_id", Str(p.ref[1].portId)>> >> ELSE <<>>)
                \o (IF p.ref[1].unloco # ""
                    THEN << <<"unloco", p.ref[1].unloco>> >> ELSE <<>>),
             ttl |-> INPORT_CACHE_MS]
      [] p.stage = "bulk" ->
            [api |-> "getBulkVesselStatus", rejected |-> p.withMmsi = <<>>,
             path |-> "vessel/bulk",
             params |->
                << <<"response", "simple">>,
                   <<"mmsi", sanitizeList([i \in 1..Len(p.withMmsi) |->
                                             Str(p.withMmsi[i].mmsi)])>> >>,
             ttl |-> BULK_CACHE_MS]

PortKey(p) == buildCacheKey(PortCall(p).path, sanitizeParams(PortCall(p).params))

\* getVesselsInPort once request has returned the data of the current stage;
\* matches.length, vesselsInPort.filter and statuses.forEach throw a
\* TypeError on null
AfterPortData(p, data, t) ==
    IF data.null THEN Swallow(p, "type")
    ELSE CASE p.stage = "search" ->
                 AfterResolve([p EXCEPT !.matches = data], FirstMatch(data.list))
           [] p.stage = "inport" ->
                 IF WithMmsi(data.list) = <<>>
                 THEN Callback([p EXCEPT !.listing = data], <<>>)
                 ELSE [p EXCEPT !.listing = data,
                                !.withMmsi = WithMmsi(data.list),
                                !.stage = "bulk", !.pc = "call"]
           [] p.stage = "bulk" ->
                 Callback([p EXCEPT !.statuses = data],
                          Merged(p.withMmsi, data.list, p.ref[1], t))

\* GET /legacy/getVesselsInPort/:shipPort up to the first client call
StartPort(inputs) ==
    /\ plan.pc = "idle"
    /\ \E input \in inputs :
          LET p == [plan EXCEPT !.mode = "port", !.input = input]
          IN  plan' =
                 CASE ResolveKind(input) = "none" -> AfterResolve(p, <<>>)
                   [] ResolveKind(input) = "ref" ->
                         AfterResolve(p, <<DirectRef(input)>>)
                   [] ResolveKind(input) = "search" ->
                         [p EXCEPT !.stage = "search", !.pc = "call"]
    /\ UNCHANGED <<cache, now, apiKey, req, upstreamCalls, cfg, zoneQueries,
                   inflight>>

\* the client call of the current stage up to the await of fetch: rejected by
\* the client, served from the cache, rejected for want of a credential, or
\* sent
IssuePortCall ==
    /\ plan.mode = "port"
    /\ plan.pc = "call"
    /\ IF plan.stage = "inport" /\ plan.ref = <<>>
       THEN /\ plan' = Swallow(plan, "type")
            /\ UNCHANGED <<cache, upstreamCalls>>
       ELSE IF PortCall(plan).rejected
       THEN /\ plan' = Swallow(plan, "validation")
            /\ UNCHANGED <<cache, upstreamCalls>>
       ELSE LET call == PortCall(plan)
                cached == CachedFor(cache, PortKey(plan), call.ttl, now)
                p == [plan EXCEPT !.calls =
                         Append(plan.calls,
                                [api |-> call.api, key |-> PortKey(plan)])]
            IN  /\ cache' = CacheAfterLookup(cache, PortKey(plan), call.ttl, now)
                /\ IF Truthy(cached)
                   THEN /\ plan' = AfterPortData(p, cached, now)
                        /\ UNCHANGED upstreamCalls
                   ELSE IF MissingKey
                   THEN /\ plan' = Swallow(p, "config")
                        /\ UNCHANGED upstreamCalls
                   ELSE /\ plan' = [p EXCEPT !.pc = "await"]
                        /\ upstreamCalls' = upstreamCalls + 1
    /\ UNCHANGED <<now, apiKey, req, cfg, zoneQueries, inflight>>

\* the upstream call of the current stage fails
PortCallFails ==
    /\ plan.mode = "port"
    /\ plan.pc = "await"
    /\ \E resp \in Responses : ~Succeeds(resp)
    /\ plan' = Swallow(plan, "upstream")
    /\ UNCHANGED <<cache, now, apiKey, req, upstreamCalls, cfg, zoneQueries,
                   inflight>>

\* the upstream call of the current stage succeeds with one of datas
PortCallSucceeds(searches, listings, statuses) ==
    /\ plan.mode = "port"
    /\ plan.pc = "await"
    /\ \E data \in (CASE plan.stage = "search" -> searches
                      [] plan.stage = "inport" -> listings
                      [] plan.stage = "bulk" -> statuses) :
          /\ Succeeds(Response(TRUE, TRUE, "success", data))
          /\ cache' = writeCache(cache, PortKey(plan), data, PortCall(plan).ttl,
                                 now)
          /\ plan' = AfterPortData(plan, data, now)
    /\ UNCHANGED <<now, apiKey, req, upstreamCalls, cfg, zoneQueries, inflight>>

----------------------------------------------------------------------------
(* SpecPort: one port request served by the gateway *)

PM_Algeciras == PortMatch(101, "ESALG", "ALGECIRAS")
PM_Alger == PortMatch(202, "", "ALGER")
PM_Empty == PortMatch(0, "", "NOWHERE")

PortSearches ==
    {Null, Data(<<>>), Data(<<PM_Algeciras>>), Data(<<PM_Alger, PM_Algeciras>>),
     Data(<<PM_Empty>>)}

PV1 == PortVessel(211, "ALPHA", "Cargo", "ES")
PV2 == PortVessel(0, "BRAVO", Undefined, Undefined)
PV3 == PortVessel(333, "DELTA", Undefined, "FR")

PortListings ==
    {Null} \cup {Data(l) : l \in UNION {[1..k -> {PV1, PV2, PV3}] :
                                           k \in 0..MaxListing}}

V4 == Vessel(333, 0, "DELTA", "t1", 2150, 650)

PortStatuses ==
    {Null} \cup {Data(l) : l \in UNION {[1..k -> {V1, V1b, V3, V4}] :
                                           k \in 0..MaxResp}}

PortInputs ==
    {<<>>, <<" ">>, <<"4", "2">>, <<" ", "0", "7", " ">>, <<"0">>,
     <<"e", "s", "a", "l", "g">>, <<" ", "E", "s", "A", "l", "g">>,
     <<"a", "l", "g">>, <<"a", "l", " ", "g">>, <<"e", "s", "a", "l", "g", "x">>,
     <<"e", "s", "a", "l", "9">>}

InitPort ==
    /\ cache = <<>>
    /\ now = 0
    /\ apiKey \in BOOLEAN
    /\ req = [r \in Slots |-> IdleSlot]
    /\ upstreamCalls = 0
    /\ cfg \in {PortConfig(m) : m \in 1..MaxPortCfg}
    /\ plan = IdlePort
    /\ zoneQueries = <<>>
    /\ inflight = {}

StartPortRequest == StartPort(PortInputs)

PortCallAnswered == PortCallSucceeds(PortSearches, PortListings, PortStatuses)

NextPort ==
    \/ StartPortRequest
    \/ IssuePortCall
    \/ PortCallFails
    \/ PortCallAnswered

SpecPort == InitPort /\ [][NextPort]_vars

----------------------------------------------------------------------------
(* Claims about port mode *)

PortStarted == plan.mode = "port" /\ plan.pc # "idle"

PortOver == plan.mode = "port" /\ plan.pc = "done"

\* the calls of a client method that reached request
CallsOf(api) == {k \in 1..Len(plan.calls) : plan.calls[k].api = api}

\* the input without the blanks around it
Trimmed == Trim(plan.input)

\* C12: an all-digit input resolves to its number as port id and a 5-letter
\* input to its uppercase as UN/LOCODE, both at once and without a port
\* search; any other input that is not blank issues exactly one port search
\* (none is left out once the request is over, never a second one) and, when
\* the search returns matches, resolves to the first of them.
C12_PortResolution ==
    PortStarted =>
       /\ AllDigits(Trimmed) =>
             /\ CallsOf("searchPorts") = {}
             /\ plan.ref = <<PortRef(NumberOf(Trimmed), "", Text(Trimmed))>>
       /\ FiveLetters(Trimmed) =>
             /\ CallsOf("searchPorts") = {}
             /\ plan.ref = <<PortRef(0, UpperText(Trimmed), UpperText(Trimmed))>>
       /\ (Trimmed # <<>> /\ ~AllDigits(Trimmed) /\ ~FiveLetters(Trimmed)) =>
             /\ Cardinality(CallsOf("searchPorts")) <= 1
             /\ PortOver => Cardinality(CallsOf("searchPorts")) = 1
             /\ \A k \in CallsOf("searchPorts") :
                   k = 1 /\ plan.calls[k].key = "port/search?name:" \o Text(Trimmed)
             /\ plan.ref # <<>> =>
                   /\ ~plan.matches.null
                   /\ plan.matches.list # <<>>
                   /\ plan.ref[1].portId = plan.matches.list[1].port_id
                   /\ plan.ref[1].unloco = plan.matches.list[1].unloco
                   /\ plan.ref[1].name = plan.matches.list[1].name
             /\ (~plan.matches.null /\ plan.matches.list # <<>>) => plan.ref # <<>>

\* a name search returned two ports and the listing of the first was asked
C12_Witness ==
    /\ PortOver
    /\ plan.input = <<"a", "l", " ", "g">>
    /\ plan.matches = Data(<<PM_Alger, PM_Algeciras>>)
    /\ plan.ref = <<PortRef(202, "", "ALGER")>>
    /\ CallsOf("getVesselsInPort") = {2}
    /\ plan.calls[2].key = "port/inport?port_id:202"

\* C13: when the input is empty or blank, or the port search returns no
\* match, the callback receives an empty list, no error is raised, and neither
\* the in-port listing nor the bulk-status endpoint is called.
C13_NothingResolved ==
    (PortStarted
     /\ \/ Trimmed = <<>>
        \/ (~plan.matches.null /\ plan.matches.list = <<>>)) =>
       /\ plan.pc = "done"
       /\ plan.result = <<>>
       /\ plan.cbCount = 1
       /\ plan.http = 200
       /\ plan.err = ""
       /\ CallsOf("getVesselsInPort") = {}
       /\ CallsOf("getBulkVesselStatus") = {}
       /\ upstreamCalls = Cardinality(CallsOf("searchPorts"))

\* a port search that found nothing was answered with the empty list
C13_Witness ==
    /\ PortOver
    /\ plan.input = <<"a", "l", "g">>
    /\ plan.matches = Data(<<>>)
    /\ upstreamCalls = 1
    /\ plan.result = <<>>
    /\ plan.cbCount = 1

\* the mmsi values of the vessels of a list (0 for none)
MmsiOf(data) ==
    IF data.null THEN {} ELSE {data.list[i].mmsi : i \in 1..Len(data.list)} \ {0}

\* C14: a port result has at most MAX_PORT_VESSELS entries; at most one
\* bulk-status call is issued per request; every returned ship has the mmsi of
\* a vessel of the port listing that is present in the bulk-status response,
\* and carries the position of that response, so a listed vessel absent from
\* the response does not appear.
C14_PortResult ==
    PortStarted =>
       /\ Len(plan.result) <= cfg.maxPortVessels
       /\ Cardinality(CallsOf("getBulkVesselStatus")) <= 1
       /\ Cardinality(CallsOf("getVesselsInPort")) <= 1
       /\ \A k \in 1..Len(plan.result) :
             \E m \in MmsiOf(plan.listing) \cap MmsiOf(plan.statuses) :
                /\ plan.result[k].id = Str(m)
                /\ \E j \in 1..Len(plan.statuses.list) :
                      /\ plan.statuses.list[j].mmsi = m
                      /\ plan.result[k].lat = plan.statuses.list[j].lat
                      /\ plan.result[k].lon = plan.statuses.list[j].lng
       /\ \A m \in MmsiOf(plan.listing) \ MmsiOf(plan.statuses) :
             \A k \in 1..Len(plan.result) : plan.result[k].id # Str(m)

\* two vessels were listed, the bulk response held one of them, and the
\* result is that one
C14_Witness ==
    /\ PortOver
    /\ cfg.maxPortVessels = 2
    /\ plan.listing = Data(<<PV1, PV3>>)
    /\ plan.statuses = Data(<<V4>>)
    /\ Len(plan.result) = 1
    /\ plan.result[1].id = "333"
    /\ Cardinality(CallsOf("getBulkVesselStatus")) = 1

\* C15: when an upstream call made for a query has failed, the caller of the
\* query has received a failure: an error answer, and no result through the
\* callback.
C15_FailureSurfaced ==
    (plan.mode \in {"area", "nearme", "port"} /\ plan.err = "upstream") =>
       /\ plan.pc = "failed"
       /\ plan.http >= 400
       /\ plan.cbCount = 0

----------------------------------------------------------------------------
(* Claims about near-me mode *)

\* C19: no two entries of a near-me result share an id.
C19_NearMeNoDuplicateIds ==
    plan.mode = "nearme" =>
       \A i, j \in 1..Len(plan.result) :
          plan.result[i].id = plan.result[j].id => i = j

\* C20: a near-me request issues exactly one zone query (one once it is over,
\* never a second) and at most one upstream call; the box of the query is
\* centered on the given point, its latitude half-height being the distance
\* clamped into [1, 50] in sixtieths of a degree.
C20_NearMeOneQuery ==
    (plan.mode = "nearme" /\ plan.center # <<>>) =>
       /\ Len(zoneQueries) <= 1
       /\ upstreamCalls <= 1
       /\ PlanOver => Len(zoneQueries) = 1
       /\ plan.pc = "await" => Len(zoneQueries) = 1
       /\ \A k \in 1..Len(zoneQueries) :
             /\ zoneQueries[k].maxLat - plan.center[1] =
                   Nearest(plan.center[3], 1, 50)
             /\ plan.center[1] - zoneQueries[k].minLat =
                   Nearest(plan.center[3], 1, 50)
             /\ zoneQueries[k].maxLon - plan.center[2] =
                   plan.center[2] - zoneQueries[k].minLon
             /\ zoneQueries[k].maxLon > plan.center[2]

\* a request for 60 nautical miles around 60N 179E was answered from one
\* query 50 arc minutes high on either side
C20_Witness ==
    /\ plan.mode = "nearme"
    /\ plan.pc = "done"
    /\ plan.center = <<Deg(60), Deg(179), 60>>
    /\ Len(zoneQueries) = 1
    /\ zoneQueries[1].minLat = Deg(60) - 50
    /\ zoneQueries[1].maxLat = Deg(60) + 50
    /\ upstreamCalls = 1

----------------------------------------------------------------------------
(* Claims about the presets *)

DefaultSpans == cfg.maxLatSpan = Deg(10) /\ cfg.maxLonSpan = Deg(25)

OnlyPresets(expr) == expr # <<>> /\ \A i \in 1..Len(expr) : IsPreset(expr[i])

\* C18: under the default span limits an area expression made of preset names
\* is accepted by normalization, and its zone queries are those of the named
\* presets, in order.
C18_PresetsUsable ==
    (AreaStarted /\ DefaultSpans /\ OnlyPresets(plan.expr)) =>
       /\ plan.err # "too_large"
       /\ Len(plan.boxes) = Len(plan.expr)
       /\ \A k \in 1..Len(zoneQueries) :
             QueryBox(zoneQueries[k]) = AREA_PRESETS[toUpperCase(plan.expr[k].text)]

----------------------------------------------------------------------------
(* SpecLookups: the lookups of the client that need an identifier *)

\* options of getVesselsInPort: portId as String(portId), Undefined when absent
PortOptions ==
    {<< <<"portId", "101">>, <<"unloco", Undefined>> >>,
     << <<"portId", Undefined>>, <<"unloco", "ESALG">> >>,
     << <<"portId", "0">>, <<"unloco", "">> >>,
     << <<"portId", Undefined>>, <<"unloco", Undefined>> >>}

\* if (options.portId) for a number, if (options.unloco) for a string
TruthyNum(s) == s # Undefined /\ s # "0"

\* the parameters getVesselsInPort hands to request
InPortParams(options) ==
    (IF TruthyNum(ParamValue(options, "portId"))
     THEN << <<"port_id", ParamValue(options, "portId")>> >> ELSE <<>>)
    \o (IF TruthyStr(ParamValue(options, "unloco"))
        THEN << <<"unloco", ParamValue(options, "unloco")>> >> ELSE <<>>)

\* a call rejected by the client before request
Rejected(api, path, params) ==
    [IdleSlot EXCEPT !.st = "error", !.err = "validation", !.api = api,
                     !.path = path, !.params = params]

GetVesselsInPort(r) ==
    /\ CanStart(r)
    /\ \E options \in PortOptions :
          IF ~TruthyNum(ParamValue(options, "portId"))
             /\ ~TruthyStr(ParamValue(options, "unloco"))
          THEN /\ req' = [req EXCEPT ![r] =
                             Rejected("getVesselsInPort", "port/inport", options)]
               /\ UNCHANGED <<cache, now, apiKey, upstreamCalls, plannerVars>>
          ELSE RequestStart(r, "getVesselsInPort", "port/inport",
                            InPortParams(options), INPORT_CACHE_MS)

\* a list of a BulkStatusQuery: whether it is an array, and its items
List(array, items) == [array |-> array, items |-> items]

BulkQueries ==
    {<< <<"mmsi", List(TRUE, <<"211", "333">>)>>, <<"imo", List(FALSE, <<>>)>> >>,
     << <<"mmsi", List(FALSE, <<>>)>>, <<"imo", List(TRUE, <<"922">>)>> >>,
     << <<"mmsi", List(TRUE, <<>>)>>, <<"imo", List(FALSE, <<>>)>> >>,
     << <<"mmsi", List(TRUE, <<>>)>>, <<"imo", List(TRUE, <<>>)>> >>,
     << <<"mmsi", List(FALSE, <<>>)>>, <<"imo", List(FALSE, <<>>)>> >>}

\* Array.isArray(list) && list.length
HasItems_Array(list) == list.array

HasItems(list) == list.array /\ Len(list.items) > 0

\* the payload getBulkVesselStatus hands to request
BulkParams(query) ==
    << <<"response", "simple">> >>
    \o (IF HasItems(ParamValue(query, "mmsi"))
        THEN << <<"mmsi", sanitizeList(ParamValue(query, "mmsi").items)>> >>
        ELSE <<>>)
    \o (IF HasItems(ParamValue(query, "imo"))
        THEN << <<"imo", sanitizeList(ParamValue(query, "imo").items)>> >>
        ELSE <<>>)

\* the lists of a query as text, Undefined for one that is no array
QueryText(query) ==
    [i \in 1..Len(query) |->
        <<query[i][1],
          IF query[i][2].array THEN JoinComma(query[i][2].items) ELSE Undefined>>]

GetBulkVesselStatus(r) ==
    /\ CanStart(r)
    /\ \E query \in BulkQueries :
          IF ~HasItems(ParamValue(query, "mmsi"))
             /\ ~HasItems(ParamValue(query, "imo"))
          THEN /\ req' = [req EXCEPT ![r] =
                             Rejected("getBulkVesselStatus", "vessel/bulk",
                                      QueryText(query))]
               /\ UNCHANGED <<cache, now, apiKey, upstreamCalls, plannerVars>>
          ELSE RequestStart(r, "getBulkVesselStatus", "vessel/bulk",
                            BulkParams(query), BULK_CACHE_MS)

NextLookups ==
    \/ \E r \in Slots : GetVesselStatus(r)
    \/ \E r \in Slots : GetVesselsInPort(r)
    \/ \E r \in Slots : GetBulkVesselStatus(r)
    \/ \E r \in Slots : UpstreamFails(r)
    \/ \E r \in Slots : UpstreamSucceeds(r)
    \/ Tick

SpecLookups == Init /\ [][NextLookups]_vars

----------------------------------------------------------------------------
(* Claims about the lookups *)

Lookups == {"getVesselStatus", "getVesselsInPort", "getBulkVesselStatus"}

\* the call of a slot names a vessel or a port
HasIdentifier(slot) ==
    \E name \in {"mmsi", "imo", "portId", "port_id", "unloco"} :
       TruthyStr(ParamValue(slot.params, name))

\* C17: a call of getVesselStatus, getVesselsInPort or getBulkVesselStatus
\* that carries no identifier raises an error at once: no upstream call is
\* issued, and the cache is neither read nor changed.
C17_MissingIdentifierRejected ==
    [][\A r \in Slots :
          (req[r].st = "idle" /\ req'[r].st # "idle" /\ req'[r].api \in Lookups
           /\ ~HasIdentifier(req'[r])) =>
             /\ req'[r].st = "error"
             /\ req'[r].err = "validation"
             /\ req'[r].fetches = 0
             /\ ~req'[r].looked
             /\ cache' = cache
             /\ upstreamCalls' = upstreamCalls]_vars

\* each of the three lookups was rejected for want of an identifier, the
\* last while the cache held the entry of an earlier call
C17_Witness ==
    /\ req[1].api = "getVesselsInPort" /\ req[1].st = "done"
    /\ req[2].api = "getVesselsInPort" /\ req[2].err = "validation"
    /\ req[3].api = "getBulkVesselStatus" /\ req[3].err = "validation"
    /\ cache # <<>>
    /\ upstreamCalls = 1

\* C16: without a credential every call of request fails with the
\* configuration error, at once: no upstream call is issued, the cache is
\* unchanged and holds nothing, and every later call fails the same way.
C16_MissingCredential ==
    [][\A r \in Slots :
          (~apiKey /\ req[r].st = "idle" /\ req'[r].st # "idle"
           /\ req'[r].err # "validation") =>
             /\ req'[r].st = "error"
             /\ req'[r].err = "config"
             /\ req'[r].fetches = 0
             /\ upstreamCalls' = upstreamCalls
             /\ upstreamCalls = 0
             /\ cache' = cache
             /\ cache = <<>>
             /\ \A q \in Slots :
                   (req[q].st # "idle" /\ req[q].err # "validation") =>
                      (req[q].st = "error" /\ req[q].err = "config")]_vars

\* three calls in a row failed for want of the credential, two of them
\* identical and cacheable
C16_Witness ==
    /\ ~apiKey
    /\ \A r \in Slots : req[r].st = "error" /\ req[r].err = "config"
    /\ req[1].key = req[2].key
    /\ req[1].ttl > 0 /\ req[2].ttl > 0
    /\ req[3].api = "getVesselStatus"
    /\ now > 0

\* what a near-me zone query reaches on either side of the center
HalfHeight(query) == query.maxLat - plan.center[1]

HalfWidth(query) == query.maxLon - plan.center[2]

\* C21: the longitude half-width of the box of a near-me query equals its
\* latitude half-height when the center latitude is 0, is never smaller than
\* the latitude half-height and never larger than 10 times it, at the pole
\* too.
C21_LonHalfWidth ==
    (plan.mode = "nearme" /\ plan.center # <<>>) =>
       \A k \in 1..Len(zoneQueries) :
          /\ HalfHeight(zoneQueries[k]) > 0
          /\ plan.center[1] = 0 =>
                HalfWidth(zoneQueries[k]) = HalfHeight(zoneQueries[k])
          /\ HalfWidth(zoneQueries[k]) >= HalfHeight(zoneQueries[k])
          /\ HalfWidth(zoneQueries[k]) <= 10 * HalfHeight(zoneQueries[k])
          /\ plan.center[1] = Deg(60) =>
                HalfWidth(zoneQueries[k]) = 2 * HalfHeight(zoneQueries[k])

\* a query around the pole, ten times as wide as high
C21_Witness ==
    /\ plan.mode = "nearme"
    /\ plan.center = <<Deg(90), 0, 5>>
    /\ Len(zoneQueries) = 1
    /\ HalfHeight(zoneQueries[1]) = 5
    /\ HalfWidth(zoneQueries[1]) = 50

----------------------------------------------------------------------------
(* SpecShip: the ship normalizers applied to two upstream records *)

\* what identifies an upstream record: 0 is an absent mmsi or imo, "" an
\* absent name or time
ShipMmsis == {0, 211, 922}

ShipImos == {0, 922}

ShipNames == {"", "A", "A-B"}

ShipTimes == {"", "B"}

Identities == [mmsi : ShipMmsis, imo : ShipImos, name : ShipNames, time : ShipTimes]

\* the record as an entry of a zone response, at a valid position
AsZoneVessel(identity) ==
    Vessel(identity.mmsi, identity.imo, identity.name, identity.time, 2100, 600)

\* the record as an entry of an in-port listing
AsPortVessel(identity) ==
    [PortVessel(identity.mmsi, identity.name, Undefined, Undefined)
        EXCEPT !.imo = identity.imo, !.arrived = identity.time]

IdleShips(first, second) ==
    [mode |-> "ship", pc |-> "idle", records |-> <<first, second>>,
     at |-> 0, ships |-> <<>>, result |-> <<>>]

InitShip ==
    /\ cache = <<>>
    /\ now = 0
    /\ apiKey = TRUE
    /\ req = [r \in Slots |-> IdleSlot]
    /\ upstreamCalls = 0
    /\ cfg = DefaultConfig
    /\ \E first \in Identities, second \in Identities :
          plan = IdleShips(first, second)
    /\ zoneQueries = <<>>
    /\ inflight = {}

\* one zone response holding the two records, merged as fetchVesselsInArea does
MapZoneVessels ==
    /\ plan.pc = "idle"
    /\ plan' = [plan EXCEPT
          !.pc = "zone",
          !.at = now,
          !.ships = <<mapZoneVesselToShip(AsZoneVessel(plan.records[1]), now),
                      mapZoneVesselToShip(AsZoneVessel(plan.records[2]), now)>>,
          !.result = mapZoneResults(MergeVessels(<<>>,
                        <<AsZoneVessel(plan.records[1]),
                          AsZoneVessel(plan.records[2])>>, now))]
    /\ UNCHANGED <<cache, now, apiKey, req, upstreamCalls, cfg, zoneQueries, inflight>>

\* one in-port listing holding the two records
MapPortVessels ==
    /\ plan.pc = "idle"
    /\ plan' = [plan EXCEPT
          !.pc = "port",
          !.at = now,
          !.ships = <<mapPortVesselToShip(AsPortVessel(plan.records[1]), now),
                      mapPortVesselToShip(AsPortVessel(plan.records[2]), now)>>]
    /\ UNCHANGED <<cache, now, apiKey, req, upstreamCalls, cfg, zoneQueries, inflight>>

NextShip ==
    \/ MapZoneVessels
    \/ MapPortVessels
    \/ Tick

SpecShip == InitShip /\ [][NextShip]_vars

Normalized == plan.mode = "ship" /\ plan.pc # "idle"

\* the present parts of name and time, joined by '-'
PresentParts(identity) ==
    IF identity.name = "" THEN identity.time
    ELSE IF identity.time = "" THEN identity.name
    ELSE identity.name \o "-" \o identity.time

\* C22: both ship normalizers give every ship a non-empty id: the mmsi when
\* present, else the imo, else the present ones of name and time joined by
\* '-', else an id made from the current time.
C22_ShipIdChain ==
    Normalized =>
       \A k \in 1..2 :
          LET identity == plan.records[k]
              id == plan.ships[k].id
          IN /\ id # ""
             /\ identity.mmsi # 0 => id = Str(identity.mmsi)
             /\ (identity.mmsi = 0 /\ identity.imo # 0) => id = Str(identity.imo)
             /\ (identity.mmsi = 0 /\ identity.imo = 0
                   /\ (identity.name # "" \/ identity.time # "")) =>
                   id = PresentParts(identity)
             /\ (identity.mmsi = 0 /\ identity.imo = 0
                   /\ identity.name = "" /\ identity.time = "") =>
                   id = "ship-" \o Str(plan.at)

\* a port ship named by its imo next to one with nothing to name it, after
\* some time has passed
C22_Witness ==
    /\ plan.mode = "ship"
    /\ plan.pc = "port"
    /\ plan.at = 1
    /\ plan.records[1] = [mmsi |-> 0, imo |-> 922, name |-> "A", time |-> "B"]
    /\ plan.records[2] = [mmsi |-> 0, imo |-> 0, name |-> "", time |-> ""]
    /\ plan.ships[1].id = "922"
    /\ plan.ships[2].id = "ship-1"

\* two upstream records that name different vessels
DifferentVessels(a, b) ==
    \/ a.mmsi # 0 /\ b.mmsi # 0 /\ a.mmsi # b.mmsi
    \/ a.mmsi # 0 /\ b.mmsi = 0 /\ b.imo # 0
    \/ b.mmsi # 0 /\ a.mmsi = 0 /\ a.imo # 0
    \/ /\ a.mmsi = 0 /\ a.imo = 0 /\ b.mmsi = 0 /\ b.imo = 0
       /\ (a.name # b.name \/ a.time # b.time)

\* C30: two records of different vessels (different mmsi; one named by its
\* mmsi and the other, without mmsi, by its imo; or both without mmsi and imo
\* and differing in name or time) get different ids, and both are in the area
\* result when the cap allows two ships.
C30_DifferentVesselsKept ==
    (plan.mode = "ship" /\ plan.pc = "zone" /\ MAX_RESULTS >= 2
       /\ DifferentVessels(plan.records[1], plan.records[2])) =>
       /\ plan.ships[1].id # plan.ships[2].id
       /\ Len(plan.result) = 2

----------------------------------------------------------------------------
(* The lifetime of the cache entries *)

\* slot r is issued in this step as a call that reads the cache
LooksUp(r, key) ==
    /\ req[r].st = "idle"
    /\ req'[r].st # "idle"
    /\ req'[r].looked
    /\ req'[r].ttl > 0
    /\ req'[r].key = key

\* slot r returns from its upstream call in this step and caches the data
WritesEntry(r, key) ==
    /\ req[r].st = "inflight"
    /\ req'[r].st = "done"
    /\ req[r].ttl > 0
    /\ req[r].key = key

CacheStep ==
    /\ \A key \in DOMAIN cache \cup DOMAIN cache' :
          EntryOf(cache, key) # EntryOf(cache', key) =>
             \E r \in Slots :
                \/ /\ LooksUp(r, key)
                   /\ HasEntry(cache, key)
                   /\ Expired(cache[key], now)
                   /\ ~HasEntry(cache', key)
                \/ /\ WritesEntry(r, key)
                   /\ HasEntry(cache', key)
                   /\ cache'[key].payload = req'[r].result
    /\ \A r \in Slots, key \in DOMAIN cache :
          (LooksUp(r, key) /\ Expired(cache[key], now)) =>
             /\ ~HasEntry(cache', key)
             /\ req'[r].fetches = 1 => upstreamCalls' = upstreamCalls + 1
    /\ now' # now => cache' = cache

\* C23: an expired entry is removed only lazily. It stays in the cache until
\* a call that reads the cache (ttl > 0) looks up its key, and is deleted by
\* that lookup, before the upstream call goes out; the entry of a key changes
\* only by a lookup or a write of that same key; the passing of time removes
\* nothing.
C23_LazyEviction == [][CacheStep]_vars

\* a call has found the entry of its key expired and deleted it, and is now
\* upstream, while the expired entry of another key is still there
C23_Witness ==
    \E r \in Slots :
       /\ req[r].st = "inflight"
       /\ req[r].looked
       /\ req[r].seen = "expired"
       /\ ~HasEntry(cache, req[r].key)
       /\ \E key \in DOMAIN cache : Expired(cache[key], now)

----------------------------------------------------------------------------
(* Which copy of a ship area mode keeps *)

\* the planner takes in the response of its current box in this step
TakesResponse ==
    /\ plan.mode = "area"
    /\ plan.pc \in {"loop", "await"}
    /\ plan'.pc = "done" \/ (plan'.pc = "loop" /\ plan'.i = plan.i + 1)

\* the ships of that response, in the order received
ReceivedShips ==
    LET key == ZoneKey(ZoneQuery(plan.boxes[plan.i], plan.minutesBack))
        vessels == EntryOf(cache', key).payload.list
    IN  [j \in 1..Len(vessels) |-> mapZoneVesselToShip(vessels[j], now)]

\* where an id occurs first in a sequence of ships
FirstIndex(ships, id) ==
    CHOOSE j \in 1..Len(ships) :
       ships[j].id = id /\ \A i \in 1..(j - 1) : ships[i].id # id

KeepsFirst ==
    TakesResponse =>
       LET old == plan.dedup
           new == plan'.dedup
           received == ReceivedShips
       IN  /\ Len(new) >= Len(old)
           /\ \A j \in 1..Len(old) : new[j] = old[j]
           /\ \A j \in 1..Len(received) : HasId(new, received[j].id)
           /\ \A p \in (Len(old) + 1)..Len(new) :
                 /\ HasId(received, new[p].id)
                 /\ ~HasId(old, new[p].id)
                 /\ new[p] = received[FirstIndex(received, new[p].id)]
                 /\ \A q \in (p + 1)..Len(new) :
                       /\ new[q].id # new[p].id
                       /\ FirstIndex(received, new[p].id)
                             < FirstIndex(received, new[q].id)
           /\ plan'.pc = "done" =>
                 /\ \A p \in 1..Len(plan'.result) : HasId(new, plan'.result[p].id)
                 /\ \A p, q \in 1..Len(plan'.result) :
                       p < q => FirstIndex(new, plan'.result[p].id)
                                   < FirstIndex(new, plan'.result[q].id)
                 /\ \A p \in 1..Len(plan'.result) :
                       plan'.result[p]
                          = new[FirstIndex(new, plan'.result[p].id)]

\* C24: in area mode, when a ship id comes in several responses or several
\* times in one response, the entry kept is the first one received, and the
\* result lists the ships in the order of their first occurrence.
C24_FirstReceivedKept == [][KeepsFirst]_vars

\* the ship 211 came first with time t1, then again in the response of the
\* second box with time t2 and ahead of another ship; the result lists it
\* first and as received first
C24_Witness ==
    /\ plan.mode = "area"
    /\ plan.pc = "done"
    /\ plan.i = 2
    /\ upstreamCalls = 2
    /\ Len(plan.result) = 2
    /\ plan.result[1].id = "211"
    /\ plan.result[1].timestamp = "t1"
    /\ plan.result[2].id = "922"
    /\ \E key \in DOMAIN cache : cache[key].payload.list = <<V1b, V2>>

----------------------------------------------------------------------------
(* Overlapping calls of request *)

\* r and q are identical cache-reading requests, both awaiting an answer
Overlapping(r, q) ==
    /\ r # q
    /\ Requested(r) /\ Requested(q)
    /\ SameQuery(r, q)
    /\ req[r].ttl > 0 /\ req[q].ttl > 0
    /\ req[r].st \notin {"done", "error"}
    /\ req[q].st \notin {"done", "error"}

\* C25: of two overlapping identical requests with ttl > 0 only one makes an
\* upstream call (the other waits for that call's data).
C25_SingleFlight ==
    \A r, q \in Slots :
       Overlapping(r, q) => req[r].fetches + req[q].fetches <= 1

----------------------------------------------------------------------------
(* SpecKeys: the cache keys of getVesselTrack calls *)

TRACK_CACHE_MS == 60000

\* the mmsi of a track call: a number or any string
TrackMmsis == {"1", "1|todate:b"}

\* the options of a track call; Undefined and 0 stand for an option left out
TrackOptions ==
    [fromdate : {Undefined}, todate : {Undefined, "b"}, days : {0, 1},
     timegroup : {0}]

\* getVesselTrack: the parameters handed to request
TrackParams(mmsi, options) ==
    << <<"mmsi", mmsi>> >>
    \o (IF TruthyStr(options.fromdate)
        THEN << <<"fromdate", options.fromdate>> >> ELSE <<>>)
    \o (IF TruthyStr(options.todate)
        THEN << <<"todate", options.todate>> >> ELSE <<>>)
    \o (IF options.days # 0
        THEN << <<"days", Str(options.days)>> >> ELSE <<>>)
    \o (IF options.timegroup # 0
        THEN << <<"timegroup", Str(options.timegroup)>> >> ELSE <<>>)

GetVesselTrack(r) ==
    /\ CanStart(r)
    /\ \E mmsi \in TrackMmsis, options \in TrackOptions :
          RequestStart(r, "getVesselTrack", "vessel/track",
                       TrackParams(mmsi, options), TRACK_CACHE_MS)

NextKeys ==
    \/ \E r \in Slots : GetVesselTrack(r)
    \/ \E r \in Slots : UpstreamFails(r)
    \/ \E r \in Slots : UpstreamSucceeds(r)
    \/ Tick

SpecKeys == Init /\ [][NextKeys]_vars

\* C26: two requests that differ in path or in their sanitized parameters
\* (another set of names, or another value) never have the same cache key.
C26_KeyInjective ==
    \A r, q \in Slots :
       (Requested(r) /\ Requested(q) /\ req[r].key = req[q].key) =>
          SameQuery(r, q)

\* the requests whose upstream call succeeded and that cached its data under
\* the key; the slots are taken in order, so the largest was issued last
Writers(key) ==
    {r \in Slots : /\ req[r].st = "done" /\ req[r].fetches = 1
                   /\ req[r].ttl > 0 /\ req[r].key = key}

LastIssued(key) == CHOOSE r \in Writers(key) : \A q \in Writers(key) : q <= r

\* C27: the entry of a key holds the data of the most recently issued
\* successful request of that key, with the expiry that request gave it: the
\* late answer of a request issued earlier neither overwrites it nor extends
\* its expiry.
C27_LatestIssuedWins ==
    \A key \in DOMAIN cache :
       Writers(key) # {} =>
          /\ cache[key].payload = req[LastIssued(key)].result
          /\ cache[key].expiresAt = req[LastIssued(key)].wroteExp

----------------------------------------------------------------------------
(* The boxes of the zone queries *)

\* C28: every zone query of area mode (the default box included) and of
\* near-me mode has minLat <= maxLat and minLon <= maxLon, latitudes within
\* [-90, 90], longitudes within [-180, 180], and spans within the configured
\* maximum spans.
C28_QueriesWellFormed ==
    \A k \in 1..Len(zoneQueries) :
       LET box == QueryBox(zoneQueries[k])
       IN  /\ box.minLat <= box.maxLat
           /\ box.minLon <= box.maxLon
           /\ InRange(box)
           /\ LatSpan(box) <= MAX_LAT_SPAN
           /\ LonSpan(box) <= MAX_LON_SPAN

----------------------------------------------------------------------------
(* SpecOutcome: one request of any of the three planners, served to its end *)

\* the request being served is one of port mode
IsPortPlan == "input" \in DOMAIN plan

InitOutcome == InitPlanner \/ InitPort

NextOutcome ==
    \/ ~IsPortPlan /\ StartAreaMinutes
    \/ ~IsPortPlan /\ StartNearMeRequest
    \/ ~IsPortPlan /\ IssueZone
    \/ ~IsPortPlan /\ ZoneFails
    \/ ~IsPortPlan /\ ZoneSucceeds
    \/ ~IsPortPlan /\ Elapse
    \/ IsPortPlan /\ StartPortRequest
    \/ IsPortPlan /\ IssuePortCall
    \/ IsPortPlan /\ PortCallFails
    \/ IsPortPlan /\ PortCallAnswered

\* the planner is about to call the client: the continuation of its last
\* await, or its first step, is waiting to run
Pending == plan.pc \in {"loop", "call"}

\* an upstream call of the planner is unanswered
Awaiting == plan.pc = "await"

\* the event loop runs every waiting continuation, and every upstream call is
\* answered: the planner stays neither pending nor awaiting for ever. These are
\* the weak fairness of the steps IssueZone and IssuePortCall, enabled exactly
\* when Pending, and of the answers (ZoneFails, ZoneSucceeds, PortCallFails,
\* PortCallAnswered), enabled exactly when Awaiting.
SpecOutcome ==
    /\ InitOutcome
    /\ [][NextOutcome]_vars
    /\ []<>(~Pending)
    /\ []<>(~Awaiting)

PlanStarted == plan.pc # "idle"

\* the callback was invoked at most once; port mode never raises and has
\* invoked it once when it is over; area and near-me mode have invoked it once
\* when they return and not at all when they raise
OneOutcome ==
    /\ plan.cbCount <= 1
    /\ ~PlanOver => plan.cbCount = 0
    /\ IsPortPlan =>
          /\ plan.pc # "failed"
          /\ plan.pc = "done" => (plan.cbCount = 1 /\ plan.http = 200)
    /\ ~IsPortPlan =>
          /\ plan.pc = "done" => (plan.cbCount = 1 /\ plan.err = "")
          /\ plan.pc = "failed" => (plan.cbCount = 0 /\ plan.err # "")

\* C29: every planner request ends in exactly one outcome once its upstream
\* calls have completed: getVesselsInPort invokes its callback exactly once
\* whatever the input and the upstream outcome, and fetchVesselsInArea and
\* fetchVesselsNearMe either invoke their callback exactly once or raise an
\* error, never both and never neither.
C29_ExactlyOneOutcome == []OneOutcome /\ (PlanStarted ~> PlanOver)

\* a port request whose third upstream call failed has invoked its callback
\* once
C29_Witness ==
    /\ IsPortPlan
    /\ plan.pc = "done"
    /\ plan.err = "upstream"
    /\ upstreamCalls = 3
    /\ plan.cbCount = 1

====
